---- MODULE Spec2Model ----
(***************************************************************************)
(* Recommendation scoring engine of the storefront: behaviour tracking,    *)
(* the per (user, product) interaction aggregate, the recommendation       *)
(* selectors, the trend batch and the engagement counters of a served      *)
(* recommendation.                                                         *)
(*                                                                         *)
(* Scores and weights are floats in the source; every value the engine     *)
(* adds is a multiple of 0.1, so the model keeps them as integers counted  *)
(* in tenths (1.0 is 10, 0.3 is 3).                                        *)
(***************************************************************************)
EXTENDS Integers, Sequences, FiniteSets, TLC

\* Longest behaviour log explored.
MaxEvents == 2
\* Most record_impression, record_click and record_conversion calls made.
MaxRecorded == 3
\* Most rows of the similarity table, and the largest limit a selector is
\* called with.
MaxSimilarities == 2
MaxLimit == 2
\* Most runs of the trend batch started.
MaxRuns == 2
MaxServed == 2

\* request.user of an anonymous session (user = None).
NoUser == "None"
Users == {"u1"}

\* Primary keys of the rows of the Product table, and of the Category table.
Products == {"p1", "p2", "p3"}
\* Further products of a larger catalogue: the ones a user with a long
\* history has bought.
MoreProducts ==
    {"h01", "h02", "h03", "h04", "h05", "h06", "h07", "h08", "h09", "h10",
     "h11", "h12", "h13", "h14", "h15", "h16", "h17", "h18", "h19", "h20"}
\* The order in which the store yields the Product rows when the ordering
\* given by a query leaves rows tied.
ProductRows ==
    <<"p1", "p2", "p3",
      "h01", "h02", "h03", "h04", "h05", "h06", "h07", "h08", "h09", "h10",
      "h11", "h12", "h13", "h14", "h15", "h16", "h17", "h18", "h19", "h20">>
CategoryIds == {"c1", "c2"}
\* An object id that is not the text of a UUID.
Malformed == {"not-a-uuid"}
ObjectIds == Products \cup CategoryIds \cup Malformed

BEHAVIOR_TYPES ==
    {"view", "cart_add", "cart_remove", "purchase", "wishlist_add", "review",
     "search", "category_browse"}
\* The kinds a caller may pass: the declared ones and one that is not declared.
Kinds == BEHAVIOR_TYPES \cup {"unknown"}

\* Worker requests that may run side by side.
Requests == {"r1", "r2"}

VARIABLES
    behaviors,      \* the UserBehavior table, in insertion order
    interactions,   \* the UserProductInteraction table: <<user, product>> to its row
    now,            \* the clock read by timezone.now()
    pc,             \* where each request stands
    local,          \* each request's arguments and in-memory model instance
    catalog,        \* the Product table: id to the fields the engine reads
    similarity,     \* the ProductSimilarity table, in storage order
    trending,       \* the TrendingProduct table: product to its snapshot
    call,           \* the last selector call made
    result,         \* what that call returned, or the exception it raised
    again,          \* what the same call returned when it was made once more
    batch,          \* where a run of update_trending_products stands
    completed,      \* the clock and the snapshots of the last run that completed
    recommendation, \* the row of one served Recommendation
    items,          \* its RecommendationItem rows: product to the row
    handler,        \* each request's step and instances of the two models
    issued,         \* how many record_* calls were made, by counter
    served,         \* how many requests of the public entry points returned
    records         \* the Recommendation rows inserted since the start

trackVars == <<behaviors, interactions, now, pc, local>>
catalogVars == <<catalog, similarity, trending>>
selectVars == <<call, result, again>>
trendVars == <<batch, completed>>
counterVars == <<recommendation, items, handler, issued, served, records>>
vars == <<behaviors, interactions, now, pc, local, catalog, similarity, trending,
          call, result, again, batch, completed,
          recommendation, items, handler, issued, served, records>>

ScoreFields ==
    {"view_score", "cart_score", "purchase_score", "wishlist_score", "review_score"}

\* A row as inserted by get_or_create: the field defaults and the two timestamps.
NewInteraction(t) ==
    [view_score |-> 0, cart_score |-> 0, purchase_score |-> 0,
     wishlist_score |-> 0, review_score |-> 0, total_score |-> 0,
     first_interaction |-> t, last_interaction |-> t, interaction_count |-> 0]

\* The weights table with the purchase entry mistyped as 1.0.
WeightPurchaseMistyped(behavior_type) ==
    CASE behavior_type = "view" -> 10
      [] behavior_type = "cart_add" -> 30
      [] behavior_type = "cart_remove" -> -10
      [] behavior_type = "purchase" -> 10
      [] behavior_type = "wishlist_add" -> 20
      [] behavior_type = "review" -> 50
      [] behavior_type = "search" -> 5
      [] behavior_type = "category_browse" -> 3
      [] OTHER -> 10

\* The weights table of the service, in tenths.
_get_behavior_weight(behavior_type) ==
    CASE behavior_type = "view" -> 10
      [] behavior_type = "cart_add" -> 30
      [] behavior_type = "cart_remove" -> -10
      [] behavior_type = "purchase" -> 100
      [] behavior_type = "wishlist_add" -> 20
      [] behavior_type = "review" -> 50
      [] behavior_type = "search" -> 5
      [] behavior_type = "category_browse" -> 3
      [] OTHER -> 10

\* The weights table of update_scores, in tenths.
score_weights(behavior_type) ==
    CASE behavior_type = "view" -> 10
      [] behavior_type = "cart_add" -> 30
      [] behavior_type = "cart_remove" -> -10
      [] behavior_type = "purchase" -> 100
      [] behavior_type = "wishlist_add" -> 20
      [] behavior_type = "review" -> 50
      [] OTHER -> 10

\* The chain with a final else that counts any other kind as a view.
ApplyBehaviorDefaultBucket(row, behavior_type) ==
    LET weight == _get_behavior_weight(behavior_type) IN
    CASE behavior_type \in {"cart_add", "cart_remove"} ->
            [row EXCEPT !.cart_score = @ + weight]
      [] behavior_type = "purchase" ->
            [row EXCEPT !.purchase_score = @ + weight]
      [] behavior_type = "wishlist_add" ->
            [row EXCEPT !.wishlist_score = @ + weight]
      [] behavior_type = "review" ->
            [row EXCEPT !.review_score = @ + weight]
      [] OTHER -> [row EXCEPT !.view_score = @ + weight]

\* The chain with the cart bucket clamped at zero.
ApplyBehaviorClamped(row, behavior_type) ==
    LET weight == _get_behavior_weight(behavior_type) IN
    CASE behavior_type = "view" ->
            [row EXCEPT !.view_score = @ + weight]
      [] behavior_type \in {"cart_add", "cart_remove"} ->
            [row EXCEPT !.cart_score = IF @ + weight < 0 THEN 0 ELSE @ + weight]
      [] behavior_type = "purchase" ->
            [row EXCEPT !.purchase_score = @ + weight]
      [] behavior_type = "wishlist_add" ->
            [row EXCEPT !.wishlist_score = @ + weight]
      [] behavior_type = "review" ->
            [row EXCEPT !.review_score = @ + weight]
      [] OTHER -> row

\* The if/elif chain of the service: the weight goes to the kind's bucket.
ApplyBehavior(row, behavior_type) ==
    LET weight == _get_behavior_weight(behavior_type) IN
    CASE behavior_type = "view" ->
            [row EXCEPT !.view_score = @ + weight]
      [] behavior_type \in {"cart_add", "cart_remove"} ->
            [row EXCEPT !.cart_score = @ + weight]
      [] behavior_type = "purchase" ->
            [row EXCEPT !.purchase_score = @ + weight]
      [] behavior_type = "wishlist_add" ->
            [row EXCEPT !.wishlist_score = @ + weight]
      [] behavior_type = "review" ->
            [row EXCEPT !.review_score = @ + weight]
      [] OTHER -> row

\* The total with the review bucket left out of the sum.
RecalculateTotalNoReview(row) ==
    [row EXCEPT !.total_score =
        row.view_score + row.cart_score + row.purchase_score
        + row.wishlist_score]

\* "Recalculate total score" of the service.
RecalculateTotal(row) ==
    [row EXCEPT !.total_score =
        row.view_score + row.cart_score + row.purchase_score
        + row.wishlist_score + row.review_score]

\* The in-memory update of the service between get_or_create and save().
UpdatedInteraction(row, created, behavior_type, t) ==
    LET touched == IF created THEN row ELSE [row EXCEPT !.last_interaction = t]
        scored == RecalculateTotal(ApplyBehavior(touched, behavior_type))
    IN  [scored EXCEPT !.interaction_count = @ + 1]

\* The queryset of update_scores: the user's events on the product.
PairBehaviors(log, user, product) ==
    SelectSeq(log, LAMBDA b : b.user = user /\ b.object_id = product)

\* The if/elif chain of update_scores.
AccumulateBehavior(row, behavior_type) ==
    LET weight == score_weights(behavior_type) IN
    CASE behavior_type = "view" ->
            [row EXCEPT !.view_score = @ + weight]
      [] behavior_type \in {"cart_add", "cart_remove"} ->
            [row EXCEPT !.cart_score = @ + weight]
      [] behavior_type = "purchase" ->
            [row EXCEPT !.purchase_score = @ + weight]
      [] behavior_type = "wishlist_add" ->
            [row EXCEPT !.wishlist_score = @ + weight]
      [] behavior_type = "review" ->
            [row EXCEPT !.review_score = @ + weight]
      [] OTHER -> row

RECURSIVE AccumulateAll(_, _)
AccumulateAll(row, bs) ==
    IF bs = <<>> THEN row
    ELSE AccumulateAll(AccumulateBehavior(row, Head(bs).behavior_type), Tail(bs))

\* update_scores up to "Calculate total score": reset, fold the events, total.
RecomputedScores(row, bs) ==
    LET reset == [row EXCEPT !.view_score = 0, !.cart_score = 0,
                             !.purchase_score = 0, !.wishlist_score = 0,
                             !.review_score = 0]
        summed == AccumulateAll(reset, bs)
    IN  [summed EXCEPT !.total_score =
            summed.view_score + summed.cart_score + summed.purchase_score
            + summed.wishlist_score + summed.review_score]

\* update_scores "Update metadata": the count and the earliest and latest event.
RecomputedMetadata(row, bs) ==
    IF bs = <<>> THEN [row EXCEPT !.interaction_count = 0]
    ELSE [row EXCEPT !.interaction_count = Len(bs),
                     !.first_interaction = bs[1].created_at,
                     !.last_interaction = bs[Len(bs)].created_at]

\* A request runs no call: it has made none or its last one returned, or its
\* last one raised.
NotRunning(r) == pc[r] \in {"returned", "raised"}

\* The rows of a table after a save: an insert or an update of the row at key.
Saved(table, key, row) ==
    [k \in DOMAIN table \cup {key} |-> IF k = key THEN row ELSE table[k]]

\* A request's locals while it runs no call, and before it holds an instance.
NoInstance == NewInteraction(0)
NoLocal ==
    [user |-> NoUser, behavior_type |-> "view", object_id |-> "p1",
     interaction |-> NoInstance, created |-> FALSE]

\* _track_behavior up to the call of _update_user_product_interaction: the
\* event is inserted, and an anonymous call returns.
TrackBehavior(r, user, behavior_type, object_id) ==
    /\ NotRunning(r)
    /\ Len(behaviors) < MaxEvents
    /\ behaviors' = Append(behaviors,
            [user |-> user, behavior_type |-> behavior_type,
             object_id |-> object_id,
             weight |-> _get_behavior_weight(behavior_type),
             created_at |-> now])
    /\ now' = now + 1
    /\ local' = [local EXCEPT ![r] =
            IF user = NoUser THEN NoLocal
            ELSE [user |-> user, behavior_type |-> behavior_type,
                  object_id |-> object_id, interaction |-> NoInstance,
                  created |-> FALSE]]
    /\ pc' = [pc EXCEPT ![r] = IF user = NoUser THEN "returned" ELSE "update"]
    /\ UNCHANGED <<interactions, catalogVars, trendVars, selectVars, counterVars>>

\* The two readings of the clock in the defaults of get_or_create: the clock
\* may or may not have advanced by the second one.
Elapsed == {0, 1}

\* Product.objects.get(id=product_id): the outcome of the lookup.
ProductLookup(object_id) ==
    IF object_id \in Malformed THEN "ValidationError"
    ELSE IF object_id \notin DOMAIN catalog THEN "DoesNotExist"
    ELSE "found"

\* The method without its except clause: every exception leaves it.
AfterLookupErrorUncaught(error) == "raised"

\* What the except clause of _update_user_product_interaction does with an
\* exception of the lookup: Product.DoesNotExist is passed over, anything else
\* leaves the method.
AfterLookupError(error) ==
    IF error = "DoesNotExist" THEN "returned" ELSE "raised"

\* Product.objects.get and get_or_create of _update_user_product_interaction.
GetOrCreateInteraction(r) ==
    /\ pc[r] = "update"
    /\ LET user == local[r].user
           object_id == local[r].object_id
           found == ProductLookup(object_id)
       IN  IF found # "found"
           THEN /\ pc' = [pc EXCEPT ![r] = AfterLookupError(found)]
                /\ local' = [local EXCEPT ![r] = NoLocal]
                /\ UNCHANGED <<interactions, now>>
           ELSE LET key == <<user, object_id>>
                    created == key \notin DOMAIN interactions
                IN  \E elapsed \in IF created THEN Elapsed ELSE {0} :
                    LET row == IF created
                               THEN [NewInteraction(now) EXCEPT
                                        !.last_interaction = now + elapsed]
                               ELSE interactions[key]
                    IN  /\ interactions' = Saved(interactions, key, row)
                        /\ now' = now + elapsed
                        /\ local' = [local EXCEPT ![r].interaction = row,
                                                  ![r].created = created]
                        /\ pc' = [pc EXCEPT ![r] = "save"]
    /\ UNCHANGED <<behaviors, catalogVars, trendVars, selectVars, counterVars>>

\* The rest of _update_user_product_interaction: the in-memory update of the
\* instance read by get_or_create, and interaction.save().
SaveInteraction(r) ==
    /\ pc[r] = "save"
    /\ LET key == <<local[r].user, local[r].object_id>>
           row == UpdatedInteraction(local[r].interaction, local[r].created,
                                     local[r].behavior_type, now)
       IN  interactions' = Saved(interactions, key, row)
    /\ local' = [local EXCEPT ![r] = NoLocal]
    /\ pc' = [pc EXCEPT ![r] = "returned"]
    /\ UNCHANGED <<behaviors, now, catalogVars, trendVars, selectVars, counterVars>>

\* update_scores on the instance of an existing row: the scores are rebuilt
\* from the event log, then the metadata, and the instance is saved.
UpdateScores(user, product) ==
    /\ <<user, product>> \in DOMAIN interactions
    /\ LET key == <<user, product>>
           bs == PairBehaviors(behaviors, user, product)
           row == RecomputedMetadata(RecomputedScores(interactions[key], bs), bs)
       IN  interactions' = Saved(interactions, key, row)
    /\ UNCHANGED <<behaviors, now, pc, local, catalogVars, trendVars, selectVars, counterVars>>

\* The calls the model issues: a signed-in user tracks any kind on a product;
\* signed-in and anonymous callers make the two calls of the public entry
\* points (a view of a product, a browse of a category), and a view with an
\* object id that is no UUID.
TrackedProducts == {"p1", "p2"}
TrackedCategories == {"c1"}
Calls ==
    (Users \X Kinds \X TrackedProducts)
    \cup ((Users \cup {NoUser}) \X {"view"} \X (TrackedProducts \cup Malformed))
    \cup ((Users \cup {NoUser}) \X {"category_browse"} \X TrackedCategories)

\* A Product row: the fields the engine reads, and the aggregates over its
\* order items and reviews that the popularity ordering annotates.
ProductRow(is_active, manage_stock, stock_quantity, category, view_count, is_featured, order_count, avg_rating) ==
    [is_active |-> is_active, manage_stock |-> manage_stock,
     stock_quantity |-> stock_quantity, category |-> category,
     view_count |-> view_count, is_featured |-> is_featured,
     order_count |-> order_count, avg_rating |-> avg_rating]

\* daily_rank, weekly_rank, monthly_rank of a snapshot never ranked (null).
NoRank == 0

\* A TrendingProduct row with the three scores given: the velocity fields at
\* their default, the ranks null.
TrendingRow(daily_score, weekly_score, monthly_score) ==
    [daily_score |-> daily_score, weekly_score |-> weekly_score,
     monthly_score |-> monthly_score,
     view_velocity |-> 0, purchase_velocity |-> 0, cart_add_velocity |-> 0,
     daily_rank |-> NoRank, weekly_rank |-> NoRank, monthly_rank |-> NoRank]

\* No run of update_trending_products is under way and none was made.
NoBatch == [pc |-> "idle", now |-> 0, todo |-> <<>>, counts |-> <<>>, processed |-> {}, failed |-> {}, runs |-> 0]

\* The usage counters of a Recommendation and of a RecommendationItem.
Counters(impressions, clicks, conversions) ==
    [impressions |-> impressions, clicks |-> clicks, conversions |-> conversions]

\* valid_until of a Recommendation that never expires (null).
NoDate == 0

\* A Recommendation row as created: the usage counters at their default,
\* with the two validity fields.
RecommendationRow(is_active, valid_until) ==
    [impressions |-> 0, clicks |-> 0, conversions |-> 0,
     is_active |-> is_active, valid_until |-> valid_until]

\* The products ranked in the served recommendation.
RecommendedProducts == {"p1", "p2"}
\* product=None of record_click and record_conversion.
NoProduct == "None"

NoHandler ==
    [pc |-> "idle", counter |-> "impressions", product |-> NoProduct,
     self |-> RecommendationRow(TRUE, NoDate), rec_item |-> Counters(0, 0, 0)]

\* A recommendation as created: its counters and those of its items zero.
CounterInit ==
    /\ recommendation = RecommendationRow(TRUE, NoDate)
    /\ items = [p \in RecommendedProducts |-> Counters(0, 0, 0)]
    /\ handler = [r \in Requests |-> NoHandler]
    /\ issued = Counters(0, 0, 0)
    /\ served = 0
    /\ records = <<>>

\* The store the tracking requests run against: every product on sale.
NoCall ==
    [entry |-> "none", selector |-> "none", user |-> NoUser, product |-> "p1",
     product_ids |-> {}, category |-> "c1", limit |-> 0]
NoResult == [raised |-> "none", products |-> <<>>]
StoreInit ==
    /\ catalog = [p \in Products |->
            ProductRow(TRUE, TRUE, 1, IF p = "p3" THEN "c2" ELSE "c1", 0, FALSE, 0, 0)]
    /\ similarity = <<>>
    /\ trending = [p \in {} |-> TrendingRow(0, 0, 0)]
    /\ call = NoCall
    /\ result = NoResult
    /\ again = <<>>
    /\ batch = NoBatch
    /\ completed = <<>>
    /\ CounterInit

TrackInit ==
    /\ behaviors = <<>>
    /\ interactions = [k \in {} |-> NoInstance]
    /\ now = 1
    /\ pc = [r \in Requests |-> "returned"]
    /\ local = [r \in Requests |-> NoLocal]
    /\ StoreInit

\* The pair the parallel workers all track.
RaceUser == "u1"
RaceProduct == "p1"

\* Requests served by parallel workers, all for the same (user, product)
\* pair: their database statements interleave.
RaceNext ==
    \/ \E r \in Requests, behavior_type \in Kinds :
            TrackBehavior(r, RaceUser, behavior_type, RaceProduct)
    \/ \E r \in Requests : GetOrCreateInteraction(r)
    \/ \E r \in Requests : SaveInteraction(r)
    \/ UpdateScores(RaceUser, RaceProduct)

SpecRace == TrackInit /\ [][RaceNext]_vars

Quiescent == \A r \in Requests : NotRunning(r)

\* One worker: a call runs to its end before the next one starts.
Worker == "r1"
SeqNext ==
    \/ \E c \in Calls : TrackBehavior(Worker, c[1], c[2], c[3])
    \/ GetOrCreateInteraction(Worker)
    \/ SaveInteraction(Worker)
    \/ \E user \in Users, product \in Products :
            NotRunning(Worker) /\ UpdateScores(user, product)

SpecSeq == TrackInit /\ [][SeqNext]_vars

Spec == SpecSeq

(***************************************************************************)
(* The recommendation selectors.                                           *)
(***************************************************************************)

Min(a, b) == IF a < b THEN a ELSE b

\* A slice s[:n] of a sequence.
Take(s, n) == SubSeq(s, 1, Min(n, Len(s)))

\* The members of s, in order, as a set.
Range(s) == {s[i] : i \in DOMAIN s}

\* a precedes b under ORDER BY on the keys, each descending.
RECURSIVE KeysBefore(_, _)
KeysBefore(a, b) ==
    /\ a # <<>>
    /\ \/ Head(a) > Head(b)
       \/ Head(a) = Head(b) /\ KeysBefore(Tail(a), Tail(b))

\* ORDER BY: the rows, each [keys, item], by keys descending; rows that tie
\* stay in the order the store yields them.
RECURSIVE OrderBy(_)
OrderBy(rows) ==
    IF rows = <<>> THEN <<>>
    ELSE LET rest == OrderBy(Tail(rows))
             first == Head(rows)
             ahead == SelectSeq(rest, LAMBDA x : KeysBefore(x.keys, first.keys))
             behind == SelectSeq(rest, LAMBDA x : ~KeysBefore(x.keys, first.keys))
         IN  ahead \o <<first>> \o behind

Items(rows) == [i \in DOMAIN rows |-> rows[i].item]

\* The columns and relations of Product a queryset lookup can name.
ProductLookups ==
    {"id", "created_at", "updated_at", "name", "slug", "description",
     "short_description", "category", "category_id", "brand", "price",
     "compare_at_price", "cost_price", "sku", "stock_quantity",
     "low_stock_threshold", "manage_stock", "weight", "dimensions",
     "ingredients", "nutritional_info", "allergens", "features", "is_active",
     "is_featured", "is_digital", "requires_shipping", "seo_title",
     "seo_description", "view_count", "reviews", "orderitem", "trending_data"}

\* Product.objects.filter(**lookups): a keyword that names no column raises
\* FieldError when the queryset is built.
FilterRaises(lookups) == ~(lookups \subseteq ProductLookups)

\* The property Product.is_in_stock.
is_in_stock(product) ==
    IF ~catalog[product].manage_stock THEN TRUE
    ELSE catalog[product].stock_quantity > 0

Returned(products) == [raised |-> "none", products |-> products]
Raised(error) == [raised |-> error, products |-> <<>>]

\* The rows of the similarity table with the product on either side, by
\* similarity_score descending.
SimilarityRows(product) ==
    Items(OrderBy(
        [i \in DOMAIN SelectSeq(similarity,
                LAMBDA row : row.product_1 = product \/ row.product_2 = product) |->
            LET row == SelectSeq(similarity,
                    LAMBDA x : x.product_1 = product \/ x.product_2 = product)[i]
            IN  [keys |-> <<row.similarity_score>>, item |-> row]]))

\* The other product of a similarity row.
OtherProduct(row, product) ==
    IF row.product_1 = product THEN row.product_2 ELSE row.product_1

\* Product rows that pass a filter, ordered by the keys descending.
OrderedProducts(passing, keys) ==
    LET rows == SelectSeq(ProductRows, LAMBDA p : p \in passing)
    IN  Items(OrderBy(
            [i \in DOMAIN rows |-> [keys |-> keys[rows[i]], item |-> rows[i]]]))

\* _get_popular_products.
_get_popular_products(limit, exclude_ids) ==
    IF FilterRaises({"is_active", "is_in_stock"}) THEN Raised("FieldError")
    ELSE Returned(Take(
            OrderedProducts(
                {p \in DOMAIN catalog : catalog[p].is_active /\ is_in_stock(p)
                           /\ p \notin exclude_ids},
                [p \in DOMAIN catalog |-> <<IF catalog[p].is_featured THEN 1 ELSE 0,
                             catalog[p].order_count, catalog[p].avg_rating,
                             catalog[p].view_count>>]),
            limit))

\* _get_popular_recommendations.
_get_popular_recommendations(session_key, limit) ==
    _get_popular_products(limit, {})

\* The loop without the stock test: a product is appended when it is active
\* and not the seed.
RECURSIVE SimilarLoopNoStockTest(_, _, _, _)
SimilarLoopNoStockTest(rows, product, limit, recommendations) ==
    IF rows = <<>> THEN recommendations
    ELSE LET similar_product == OtherProduct(Head(rows), product)
             admitted == /\ catalog[similar_product].is_active
                         /\ similar_product # product
             grown == IF admitted THEN Append(recommendations, similar_product)
                      ELSE recommendations
         IN  IF admitted /\ Len(grown) >= limit THEN grown
             ELSE SimilarLoopNoStockTest(Tail(rows), product, limit, grown)

\* The loop of _get_similar_products over the similarity rows: a product is
\* appended when it is active, in stock and not the seed, and the loop breaks
\* when the list holds limit products.
RECURSIVE SimilarLoop(_, _, _, _)
SimilarLoop(rows, product, limit, recommendations) ==
    IF rows = <<>> THEN recommendations
    ELSE LET similar_product == OtherProduct(Head(rows), product)
             admitted == /\ catalog[similar_product].is_active
                         /\ is_in_stock(similar_product)
                         /\ similar_product # product
             grown == IF admitted THEN Append(recommendations, similar_product)
                      ELSE recommendations
         IN  IF admitted /\ Len(grown) >= limit THEN grown
             ELSE SimilarLoop(Tail(rows), product, limit, grown)

\* _get_similar_products.
_get_similar_products(product, limit) ==
    LET similar_products == Take(SimilarityRows(product), limit * 2)
        recommendations == SimilarLoop(similar_products, product, limit, <<>>)
    IN  IF Len(recommendations) < limit
        THEN IF FilterRaises({"category", "is_active", "is_in_stock"})
             THEN Raised("FieldError")
             ELSE LET category_products ==
                        Take(OrderedProducts(
                                {p \in DOMAIN catalog : /\ catalog[p].category = catalog[product].category
                                           /\ catalog[p].is_active /\ is_in_stock(p)
                                           /\ p \notin Range(recommendations) \cup {product}},
                                [p \in DOMAIN catalog |-> <<catalog[p].view_count>>]),
                             limit - Len(recommendations))
                  IN  Returned(Take(recommendations \o category_products, limit))
        ELSE Returned(Take(recommendations, limit))

\* _get_frequently_bought_together.
_get_frequently_bought_together(product_ids, limit) ==
    LET cart_categories == {catalog[p].category : p \in product_ids \cap DOMAIN catalog}
    IN  IF FilterRaises({"category_id", "is_active", "is_in_stock"})
        THEN Raised("FieldError")
        ELSE Returned(Take(
                OrderedProducts(
                    {p \in DOMAIN catalog : /\ catalog[p].category \in cart_categories
                               /\ catalog[p].is_active /\ is_in_stock(p)
                               /\ p \notin product_ids},
                    [p \in DOMAIN catalog |-> <<catalog[p].order_count, catalog[p].view_count>>]),
                limit))

\* _get_trending_in_category.
_get_trending_in_category(category, limit) ==
    IF FilterRaises({"category", "is_active", "is_in_stock", "trending_data"})
    THEN Raised("FieldError")
    ELSE LET trending_products ==
                Take(OrderedProducts(
                        {p \in DOMAIN catalog : /\ catalog[p].category = category
                                   /\ catalog[p].is_active /\ is_in_stock(p)
                                   /\ p \in DOMAIN trending},
                        [p \in DOMAIN catalog |-> <<IF p \in DOMAIN trending
                                     THEN trending[p].daily_score ELSE 0>>]),
                     limit)
         IN  IF Len(trending_products) >= limit THEN Returned(trending_products)
             ELSE LET remaining == limit - Len(trending_products)
                      popular_products ==
                        Take(OrderedProducts(
                                {p \in DOMAIN catalog : /\ catalog[p].category = category
                                           /\ catalog[p].is_active /\ is_in_stock(p)
                                           /\ p \notin Range(trending_products)},
                                [p \in DOMAIN catalog |-> <<catalog[p].view_count>>]),
                             remaining)
                  IN  Returned(trending_products \o popular_products)

\* The user's interaction rows by total_score descending: the products.
InteractionsOf(user) ==
    OrderedProducts({p \in DOMAIN catalog : <<user, p>> \in DOMAIN interactions},
                    [p \in DOMAIN catalog |-> <<IF <<user, p>> \in DOMAIN interactions
                                 THEN interactions[<<user, p>>].total_score ELSE 0>>])

\* The inner loop of _get_personalized_recommendations over the similarity
\* rows of one seed.
RECURSIVE SeedLoop(_, _, _, _, _)
SeedLoop(rows, seed, interacted_product_ids, limit, recommended_products) ==
    IF rows = <<>> THEN recommended_products
    ELSE LET similar_product == OtherProduct(Head(rows), seed)
             admitted == /\ similar_product \notin interacted_product_ids
                         /\ similar_product \notin Range(recommended_products)
                         /\ catalog[similar_product].is_active
                         /\ is_in_stock(similar_product)
             grown == IF admitted THEN Append(recommended_products, similar_product)
                      ELSE recommended_products
         IN  IF admitted /\ Len(grown) >= limit THEN grown
             ELSE SeedLoop(Tail(rows), seed, interacted_product_ids, limit, grown)

\* The outer loop over the seeds; it breaks once limit products are held.
RECURSIVE PersonalizedLoop(_, _, _, _)
PersonalizedLoop(seeds, interacted_product_ids, limit, recommended_products) ==
    IF seeds = <<>> THEN recommended_products
    ELSE LET grown == SeedLoop(Take(SimilarityRows(Head(seeds)), 5), Head(seeds),
                               interacted_product_ids, limit, recommended_products)
         IN  IF Len(grown) >= limit THEN grown
             ELSE PersonalizedLoop(Tail(seeds), interacted_product_ids, limit, grown)

\* The selector without the closing slice: the list the loops built is
\* returned as it is.
PersonalizedNoFinalSlice(user, limit) ==
    LET seeds == Take(InteractionsOf(user), 20) IN
    IF seeds = <<>> THEN _get_popular_recommendations("", limit)
    ELSE LET interacted_product_ids == Range(seeds)
             recommended_products ==
                PersonalizedLoop(Take(seeds, 5), interacted_product_ids, limit, <<>>)
         IN  IF Len(recommended_products) < limit
             THEN LET popular_products ==
                        _get_popular_products(
                            limit - Len(recommended_products),
                            Range(recommended_products) \cup interacted_product_ids)
                  IN  IF popular_products.raised # "none" THEN popular_products
                      ELSE Returned(recommended_products
                                    \o popular_products.products)
             ELSE Returned(recommended_products)

\* _get_personalized_recommendations.
_get_personalized_recommendations(user, limit) ==
    LET seeds == Take(InteractionsOf(user), 20) IN
    IF seeds = <<>> THEN _get_popular_recommendations("", limit)
    ELSE LET interacted_product_ids == Range(seeds)
             recommended_products ==
                PersonalizedLoop(Take(seeds, 5), interacted_product_ids, limit, <<>>)
         IN  IF Len(recommended_products) < limit
             THEN LET popular_products ==
                        _get_popular_products(
                            limit - Len(recommended_products),
                            Range(recommended_products) \cup interacted_product_ids)
                  IN  IF popular_products.raised # "none" THEN popular_products
                      ELSE Returned(Take(recommended_products
                                         \o popular_products.products, limit))
             ELSE Returned(Take(recommended_products, limit))

Limits == 0..MaxLimit

CallPersonalized(user, limit) ==
    /\ call = NoCall
    /\ call' = [NoCall EXCEPT !.selector = "personalized", !.user = user,
                              !.limit = limit]
    /\ result' = _get_personalized_recommendations(user, limit)
    /\ again' = again
    /\ UNCHANGED <<trackVars, catalogVars, trendVars, counterVars>>

CallSimilar(product, limit) ==
    /\ call = NoCall
    /\ call' = [NoCall EXCEPT !.selector = "similar", !.product = product,
                              !.limit = limit]
    /\ result' = _get_similar_products(product, limit)
    /\ again' = again
    /\ UNCHANGED <<trackVars, catalogVars, trendVars, counterVars>>

CallFrequentlyBoughtTogether(product_ids, limit) ==
    /\ call = NoCall
    /\ call' = [NoCall EXCEPT !.selector = "frequently_bought_together",
                              !.product_ids = product_ids, !.limit = limit]
    /\ result' = _get_frequently_bought_together(product_ids, limit)
    /\ again' = again
    /\ UNCHANGED <<trackVars, catalogVars, trendVars, counterVars>>

CallTrendingInCategory(category, limit) ==
    /\ call = NoCall
    /\ call' = [NoCall EXCEPT !.selector = "trending_category",
                              !.category = category, !.limit = limit]
    /\ result' = _get_trending_in_category(category, limit)
    /\ again' = again
    /\ UNCHANGED <<trackVars, catalogVars, trendVars, counterVars>>

CallPopular(limit) ==
    /\ call = NoCall
    /\ call' = [NoCall EXCEPT !.selector = "popular", !.limit = limit]
    /\ result' = _get_popular_products(limit, {})
    /\ again' = again
    /\ UNCHANGED <<trackVars, catalogVars, trendVars, counterVars>>

\* The caller takes the list (or the exception): the next call can be made.
TakeResult ==
    /\ call # NoCall
    /\ call' = NoCall
    /\ result' = NoResult
    /\ again' = <<>>
    /\ UNCHANGED <<trackVars, catalogVars, trendVars, counterVars>>

\* The states of sale of a product the selectors tell apart: on sale with
\* managed stock, on sale with unmanaged stock, sold out, withdrawn.
SaleStates ==
    {[is_active |-> TRUE, manage_stock |-> TRUE, stock_quantity |-> 1],
     [is_active |-> TRUE, manage_stock |-> FALSE, stock_quantity |-> 0],
     [is_active |-> TRUE, manage_stock |-> TRUE, stock_quantity |-> 0],
     [is_active |-> FALSE, manage_stock |-> TRUE, stock_quantity |-> 1]}

\* The similarity rows a table is drawn from: pairs around p1 in both
\* directions, a pair of a product with itself, and scores that tie.
SimilarityRow(product_1, product_2, similarity_score) ==
    [product_1 |-> product_1, product_2 |-> product_2,
     similarity_score |-> similarity_score, similarity_type |-> "content_based"]
CandidateSimilarities ==
    {SimilarityRow("p1", "p2", 9), SimilarityRow("p2", "p1", 5),
     SimilarityRow("p1", "p3", 9), SimilarityRow("p3", "p1", 5),
     SimilarityRow("p1", "p1", 9)}

\* The tables of at most MaxSimilarities rows, unique on
\* (product_1, product_2, similarity_type), in every storage order.
RECURSIVE TablesOfLength(_)
TablesOfLength(n) ==
    IF n = 0 THEN {<<>>}
    ELSE {Append(t, row) : t \in TablesOfLength(n - 1),
                           row \in CandidateSimilarities} 
SimilarityTables ==
    {t \in UNION {TablesOfLength(n) : n \in 0..MaxSimilarities} :
        \A i, j \in DOMAIN t :
            i # j => <<t[i].product_1, t[i].product_2>>
                     # <<t[j].product_1, t[j].product_2>>}

\* An interaction row holding one tracked event of the kind.
InteractionAfter(behavior_type) ==
    UpdatedInteraction(NewInteraction(1), TRUE, behavior_type, 1)

\* The histories of the user the selectors are run against: none, a purchase
\* of p1, and a purchase of p1 with a view of p2.
InteractionTables ==
    {[k \in {} |-> NoInstance],
     [k \in {<<"u1", "p1">>} |-> InteractionAfter("purchase")],
     [k \in {<<"u1", "p1">>, <<"u1", "p2">>} |->
        IF k[2] = "p1" THEN InteractionAfter("purchase")
        ELSE InteractionAfter("view")]}

SelectInit ==
    /\ behaviors = <<>>
    /\ now = 1
    /\ pc = [r \in Requests |-> "returned"]
    /\ local = [r \in Requests |-> NoLocal]
    /\ interactions \in InteractionTables
    /\ \E sale \in [Products -> SaleStates] :
        catalog = [p \in Products |->
            ProductRow(sale[p].is_active, sale[p].manage_stock,
                       sale[p].stock_quantity,
                       IF p = "p3" THEN "c2" ELSE "c1", 0, FALSE, 0, 0)]
    /\ similarity \in SimilarityTables
    /\ trending = [p \in {"p1"} |-> TrendingRow(390, 2980, 12320)]
    /\ call = NoCall
    /\ result = NoResult
    /\ again = <<>>
    /\ batch = NoBatch
    /\ completed = <<>>
    /\ CounterInit

\* The contents of a cart.
Carts == {{p} : p \in Products} \cup {Products}

SelectNext ==
    \/ \E user \in Users, limit \in Limits : CallPersonalized(user, limit)
    \/ \E product \in Products, limit \in Limits : CallSimilar(product, limit)
    \/ \E product_ids \in Carts, limit \in Limits :
            CallFrequentlyBoughtTogether(product_ids, limit)
    \/ \E category \in CategoryIds, limit \in Limits :
            CallTrendingInCategory(category, limit)
    \/ \E limit \in Limits : CallPopular(limit)
    \/ TakeResult

SpecSelect == SelectInit /\ [][SelectNext]_vars

(***************************************************************************)
(* The same selector call made twice against the same rows.                *)
(***************************************************************************)

\* What the selector of a call returns against the current tables.
Selected(c) ==
    CASE c.selector = "personalized" ->
            _get_personalized_recommendations(c.user, c.limit)
      [] c.selector = "similar" -> _get_similar_products(c.product, c.limit)
      [] c.selector = "frequently_bought_together" ->
            _get_frequently_bought_together(c.product_ids, c.limit)
      [] c.selector = "trending_category" ->
            _get_trending_in_category(c.category, c.limit)
      [] c.selector = "popular" -> _get_popular_products(c.limit, {})

\* The orders in which the store may yield the rows of a table.
Reorderings(table) ==
    {t \in [DOMAIN table -> Range(table)] : Range(t) = Range(table)}

\* order_by('-similarity_score') names no unique key: rows that tie come in
\* whichever order the store yields them, and that order may differ from one
\* query to the next although no row was written.
Reorder ==
    /\ call # NoCall
    /\ again = <<>>
    /\ \E t \in Reorderings(similarity) : t # similarity /\ similarity' = t
    /\ UNCHANGED <<catalog, trending>>
    /\ UNCHANGED <<trackVars, selectVars, trendVars, counterVars>>

\* The call is made once more, with the same arguments.
CallAgain ==
    /\ call # NoCall
    /\ again = <<>>
    /\ again' = <<Selected(call)>>
    /\ UNCHANGED <<call, result>>
    /\ UNCHANGED <<trackVars, catalogVars, trendVars, counterVars>>

\* Every product on sale, in one category or two.
RepeatInit ==
    /\ behaviors = <<>>
    /\ now = 1
    /\ pc = [r \in Requests |-> "returned"]
    /\ local = [r \in Requests |-> NoLocal]
    /\ interactions \in InteractionTables
    /\ \E third \in CategoryIds :
        catalog = [p \in Products |->
            ProductRow(TRUE, TRUE, 1, IF p = "p3" THEN third ELSE "c1", 0, FALSE, 0, 0)]
    /\ similarity \in SimilarityTables
    /\ trending = [p \in {"p1"} |-> TrendingRow(390, 2980, 12320)]
    /\ call = NoCall
    /\ result = NoResult
    /\ again = <<>>
    /\ batch = NoBatch
    /\ completed = <<>>
    /\ CounterInit

RepeatNext ==
    \/ \E user \in Users, limit \in Limits : CallPersonalized(user, limit)
    \/ \E product \in Products, limit \in Limits : CallSimilar(product, limit)
    \/ \E product_ids \in Carts, limit \in Limits :
            CallFrequentlyBoughtTogether(product_ids, limit)
    \/ \E category \in CategoryIds, limit \in Limits :
            CallTrendingInCategory(category, limit)
    \/ \E limit \in Limits : CallPopular(limit)
    \/ Reorder
    \/ CallAgain
    \/ TakeResult

SpecRepeat == RepeatInit /\ [][RepeatNext]_vars

(***************************************************************************)
(* Personalized selection for users with a short and with a long history.  *)
(***************************************************************************)

\* A user who bought every one of the further products and viewed p2: more
\* rows than the slice the selector reads, p2 the one with the lowest total.
LongHistory ==
    [k \in {"u1"} \X (MoreProducts \cup {"p2"}) |->
        IF k[2] = "p2" THEN InteractionAfter("view")
        ELSE InteractionAfter("purchase")]

HistoryTables == InteractionTables \cup {LongHistory}

\* The similarity tables, without and with a row that pairs p2 with one of
\* the further products, stored first or last.
LinkRow == SimilarityRow("p2", "h01", 9)
HistorySimilarityTables ==
    SimilarityTables
    \cup {<<LinkRow>> \o t : t \in SimilarityTables}
    \cup {t \o <<LinkRow>> : t \in SimilarityTables}

HistoryInit ==
    /\ behaviors = <<>>
    /\ now = 1
    /\ pc = [r \in Requests |-> "returned"]
    /\ local = [r \in Requests |-> NoLocal]
    /\ interactions \in HistoryTables
    /\ \E sale \in [{"p2", "p3"} -> SaleStates] :
        catalog = [p \in Products \cup MoreProducts |->
            IF p \in DOMAIN sale
            THEN ProductRow(sale[p].is_active, sale[p].manage_stock,
                            sale[p].stock_quantity,
                            IF p = "p3" THEN "c2" ELSE "c1", 0, FALSE, 0, 0)
            ELSE ProductRow(TRUE, TRUE, 1, "c1", 0, FALSE, 0, 0)]
    /\ similarity \in HistorySimilarityTables
    /\ trending = [p \in {"p1"} |-> TrendingRow(390, 2980, 12320)]
    /\ call = NoCall
    /\ result = NoResult
    /\ again = <<>>
    /\ batch = NoBatch
    /\ completed = <<>>
    /\ CounterInit

\* The limits of the homepage calls: up to two more than the other selectors
\* are called with.
HistoryLimits == 0..(MaxLimit + 2)

HistoryNext ==
    \/ \E user \in Users, limit \in HistoryLimits : CallPersonalized(user, limit)
    \/ TakeResult

SpecHistory == HistoryInit /\ [][HistoryNext]_vars

(***************************************************************************)
(* The trend batch: update_trending_products and its ranking pass.         *)
(* The clock counts days.                                                  *)
(***************************************************************************)

\* timedelta(days=1), timedelta(days=7), timedelta(days=30).
Day == 1
Week == 7
Month == 30

\* UserBehavior.objects.filter(object_id=..., behavior_type=...,
\* created_at__gte=since).count().
CountSince(product, behavior_type, since) ==
    Len(SelectSeq(behaviors,
            LAMBDA b : /\ b.object_id = product
                       /\ b.behavior_type = behavior_type
                       /\ b.created_at >= since))

\* The weekly score built on the daily score taken once, not seven times.
TrendScoresDailyOnce(daily_views, daily_purchases, daily_cart_adds, weekly_views, monthly_views) ==
    LET daily_score == daily_views * 10 + daily_purchases * 100
                       + daily_cart_adds * 30
        weekly_score == weekly_views * 5 + daily_score
        monthly_score == monthly_views * 2 + weekly_score * 4
    IN  [daily_score |-> daily_score, weekly_score |-> weekly_score,
         monthly_score |-> monthly_score]

\* The three trending scores, in tenths.
TrendScores(daily_views, daily_purchases, daily_cart_adds, weekly_views, monthly_views) ==
    LET daily_score == daily_views * 10 + daily_purchases * 100
                       + daily_cart_adds * 30
        weekly_score == weekly_views * 5 + daily_score * 7
        monthly_score == monthly_views * 2 + weekly_score * 4
    IN  [daily_score |-> daily_score, weekly_score |-> weekly_score,
         monthly_score |-> monthly_score]

\* The snapshot of a product built from the five counts of its iteration,
\* in the order the loop takes them: a row inserted with the defaults given,
\* or the row found with its six fields assigned and saved.
SnapshotFrom(product, counts) ==
    LET scores == TrendScores(counts[1], counts[2], counts[3], counts[4], counts[5])
        trending_data == IF product \in DOMAIN trending THEN trending[product]
                         ELSE TrendingRow(0, 0, 0)
    IN  [trending_data EXCEPT !.daily_score = scores.daily_score,
                              !.weekly_score = scores.weekly_score,
                              !.monthly_score = scores.monthly_score,
                              !.view_velocity = counts[1],
                              !.purchase_velocity = counts[2],
                              !.cart_add_velocity = counts[3]]

\* The snapshot of a product after its iteration of the loop, the clock
\* having been read as t: a row inserted with the defaults given, or the
\* row found with its six fields assigned and saved.
UpdatedSnapshot(product, t) ==
    LET daily_views == CountSince(product, "view", t - Day)
        daily_purchases == CountSince(product, "purchase", t - Day)
        daily_cart_adds == CountSince(product, "cart_add", t - Day)
        weekly_views == CountSince(product, "view", t - Week)
        monthly_views == CountSince(product, "view", t - Month)
    IN  SnapshotFrom(product, <<daily_views, daily_purchases, daily_cart_adds,
                                weekly_views, monthly_views>>)

\* update_trending_products is called: the clock is read and the queryset of
\* the active products is built.
StartBatch ==
    /\ batch.pc = "idle"
    /\ batch.runs < MaxRuns
    /\ batch' = [pc |-> "loop", now |-> now,
                 todo |-> SelectSeq(ProductRows,
                            LAMBDA p : p \in DOMAIN catalog /\ catalog[p].is_active),
                 counts |-> <<>>,
                 processed |-> {}, failed |-> {}, runs |-> batch.runs + 1]
    /\ UNCHANGED <<completed, trackVars, catalogVars, selectVars, counterVars>>

\* One iteration of the loop over the products. The five counts and the
\* get_or_create or save are statements sent to the store; when one of them
\* fails the exception leaves the loop and the method, which has no handler.
ProcessProduct(fails) ==
    /\ batch.pc = "loop"
    /\ batch.todo # <<>>
    /\ batch.counts = <<>>
    /\ LET product == Head(batch.todo) IN
        IF fails
        THEN /\ batch' = [batch EXCEPT !.pc = "raised",
                                       !.failed = @ \cup {product}]
             /\ UNCHANGED trending
        ELSE /\ trending' = Saved(trending, product,
                                  UpdatedSnapshot(product, batch.now))
             /\ batch' = [batch EXCEPT !.todo = Tail(@),
                                       !.processed = @ \cup {product}]
    /\ UNCHANGED <<catalog, similarity, completed>>
    /\ UNCHANGED <<trackVars, selectVars, counterVars>>

\* The snapshots in an order that TrendingProduct.objects.order_by('-field')
\* may yield: descending by the field, tied rows either way round.
Rankings(table, field) ==
    {order \in [1..Cardinality(DOMAIN table) -> DOMAIN table] :
        /\ Range(order) = DOMAIN table
        /\ \A i, j \in DOMAIN order :
                i < j => table[order[i]][field] >= table[order[j]][field]}

\* enumerate(queryset) without a start: the first row gets 0.
RankOfFromZero(order, product) ==
    (CHOOSE i \in DOMAIN order : order[i] = product) - 1

\* enumerate(queryset, 1): the rank of a row is its place in the order.
RankOf(order, product) == CHOOSE i \in DOMAIN order : order[i] = product

\* _update_trending_rankings: the three passes; each saves one rank column.
Ranked(table, daily, weekly, monthly) ==
    [p \in DOMAIN table |->
        [table[p] EXCEPT !.daily_rank = RankOf(daily, p),
                         !.weekly_rank = RankOf(weekly, p),
                         !.monthly_rank = RankOf(monthly, p)]]

\* The loop is through: the ranking pass runs and the method returns.
UpdateTrendingRankings ==
    /\ batch.pc = "loop"
    /\ batch.todo = <<>>
    /\ \E daily \in Rankings(trending, "daily_score"),
          weekly \in Rankings(trending, "weekly_score"),
          monthly \in Rankings(trending, "monthly_score") :
            trending' = Ranked(trending, daily, weekly, monthly)
    /\ batch' = [batch EXCEPT !.pc = "done"]
    /\ completed' = <<[now |-> batch.now, table |-> trending']>>
    /\ UNCHANGED <<catalog, similarity>>
    /\ UNCHANGED <<trackVars, selectVars, counterVars>>

\* The caller has the return or the exception: the job may be run again.
EndBatch ==
    /\ batch.pc \in {"done", "raised"}
    /\ batch' = [batch EXCEPT !.pc = "idle"]
    /\ UNCHANGED <<completed, trackVars, catalogVars, selectVars, counterVars>>

\* How long ago the events of a log were tracked: on the edge of the
\* trailing day, week and month, and before the month.
Ages == {Day, Week, Month, Month + 1}

\* The clock when the batch runs.
BatchTime == Month + 10

\* The events a log is drawn from: views of any age, purchases and cart
\* adds inside and outside the trailing day.
LoggedEvents ==
    {[user |-> NoUser, behavior_type |-> c[1], object_id |-> c[2],
      weight |-> _get_behavior_weight(c[1]), created_at |-> BatchTime - c[3]] :
        c \in {c \in {"view", "purchase", "cart_add"} \X TrackedProducts \X Ages :
                    c[1] = "view" \/ c[3] \in {Day, Week}}}

\* The logs of at most n events, in insertion order: created_at never
\* decreases.
RECURSIVE LogsOfLength(_)
LogsOfLength(n) ==
    IF n = 0 THEN {<<>>}
    ELSE {Append(log, e) : log \in LogsOfLength(n - 1), e \in LoggedEvents}
Logs ==
    {log \in UNION {LogsOfLength(n) : n \in 0..MaxEvents} :
        \A i, j \in DOMAIN log : i < j => log[i].created_at <= log[j].created_at}

\* p1 and p2 active, p3 withdrawn with the snapshot of an earlier run; p1
\* with or without a snapshot.
TrendInit ==
    /\ behaviors \in Logs
    /\ now = BatchTime
    /\ interactions = [k \in {} |-> NoInstance]
    /\ pc = [r \in Requests |-> "returned"]
    /\ local = [r \in Requests |-> NoLocal]
    /\ catalog = [p \in Products |->
            ProductRow(p # "p3", TRUE, 1, "c1", 0, FALSE, 0, 0)]
    /\ similarity = <<>>
    /\ trending \in {[p \in {"p3"} |-> TrendingRow(390, 2980, 12320)],
                      [p \in {"p1", "p3"} |->
                            IF p = "p1" THEN TrendingRow(0, 0, 0)
                            ELSE TrendingRow(390, 2980, 12320)]}
    /\ call = NoCall
    /\ result = NoResult
    /\ again = <<>>
    /\ batch = NoBatch
    /\ completed = <<>>
    /\ CounterInit

TrendNext ==
    \/ StartBatch
    \/ \E fails \in BOOLEAN : ProcessProduct(fails)
    \/ UpdateTrendingRankings
    \/ EndBatch

SpecTrend == TrendInit /\ [][TrendNext]_vars

\* The five count queries of an iteration, in the order the loop sends them:
\* the kind counted and the length of the trailing window.
CountQueries ==
    <<[behavior_type |-> "view", window |-> Day],
      [behavior_type |-> "purchase", window |-> Day],
      [behavior_type |-> "cart_add", window |-> Day],
      [behavior_type |-> "view", window |-> Week],
      [behavior_type |-> "view", window |-> Month]>>

\* The next count query of the iteration is sent: it counts the events the
\* log holds when the store runs it.
CountQuery ==
    /\ batch.pc = "loop"
    /\ batch.todo # <<>>
    /\ Len(batch.counts) < Len(CountQueries)
    /\ LET query == CountQueries[Len(batch.counts) + 1] IN
        batch' = [batch EXCEPT !.counts = Append(@,
                    CountSince(Head(batch.todo), query.behavior_type,
                               batch.now - query.window))]
    /\ UNCHANGED <<completed, trackVars, catalogVars, selectVars, counterVars>>

\* The five counts are in: the scores are computed and the snapshot saved.
SaveSnapshot ==
    /\ batch.pc = "loop"
    /\ batch.todo # <<>>
    /\ Len(batch.counts) = Len(CountQueries)
    /\ trending' = Saved(trending, Head(batch.todo),
                         SnapshotFrom(Head(batch.todo), batch.counts))
    /\ batch' = [batch EXCEPT !.todo = Tail(@), !.counts = <<>>,
                              !.processed = @ \cup {Head(batch.todo)}]
    /\ UNCHANGED <<catalog, similarity, completed>>
    /\ UNCHANGED <<trackVars, selectVars, counterVars>>

\* The kinds of event the batch counts.
CountedKinds == {"view", "purchase", "cart_add"}

\* The batch starts on a log of at most one event.
LiveInit ==
    /\ TrendInit
    /\ Len(behaviors) <= 1

\* The batch runs while visitors are served: events are inserted between
\* the statements of an iteration.
LiveNext ==
    \/ StartBatch
    \/ CountQuery
    \/ SaveSnapshot
    \/ UpdateTrendingRankings
    \/ EndBatch
    \/ \E behavior_type \in CountedKinds, product \in TrackedProducts :
            TrackBehavior(Worker, NoUser, behavior_type, product)

SpecTrendLive == LiveInit /\ [][LiveNext]_vars

(***************************************************************************)
(* The usage counters of a served recommendation.                          *)
(***************************************************************************)

\* A request fetches the Recommendation: its instance holds the row as read.
LoadRecommendation(r) ==
    /\ handler[r].pc = "idle"
    /\ handler' = [handler EXCEPT ![r] = [NoHandler EXCEPT !.pc = "loaded",
                                                           !.self = recommendation]]
    /\ UNCHANGED <<recommendation, items, issued>>
    /\ UNCHANGED <<trackVars, catalogVars, trendVars, selectVars, served, records>>

Total(c) == c.impressions + c.clicks + c.conversions

\* record_impression that also raises the impressions of every item.
RecordImpressionOnItems(r) ==
    /\ handler[r].pc = "loaded"
    /\ Total(issued) < MaxRecorded
    /\ recommendation' =
            [recommendation EXCEPT !.impressions = handler[r].self.impressions + 1]
    /\ items' = [p \in DOMAIN items |->
                    [items[p] EXCEPT !.impressions = @ + 1]]
    /\ issued' = [issued EXCEPT !.impressions = @ + 1]
    /\ handler' = [handler EXCEPT ![r] = NoHandler]
    /\ UNCHANGED <<trackVars, catalogVars, trendVars, selectVars, served, records>>

\* The save of the item with both of its counters raised.
SaveItemBothCounters(r) ==
    /\ handler[r].pc = "item_save"
    /\ items' = [items EXCEPT ![handler[r].product] =
                    [@ EXCEPT !.clicks = handler[r].rec_item.clicks + 1,
                              !.conversions = handler[r].rec_item.conversions + 1]]
    /\ handler' = [handler EXCEPT ![r] = NoHandler]
    /\ UNCHANGED <<recommendation, issued>>
    /\ UNCHANGED <<trackVars, catalogVars, trendVars, selectVars, served, records>>

\* record_impression: the instance's counter is raised and that one column is
\* saved.
record_impression(r) ==
    /\ handler[r].pc = "loaded"
    /\ Total(issued) < MaxRecorded
    /\ recommendation' =
            [recommendation EXCEPT !.impressions = handler[r].self.impressions + 1]
    /\ issued' = [issued EXCEPT !.impressions = @ + 1]
    /\ handler' = [handler EXCEPT ![r] = NoHandler]
    /\ UNCHANGED items
    /\ UNCHANGED <<trackVars, catalogVars, trendVars, selectVars, served, records>>

\* The first half of record_click (counter "clicks") and of record_conversion
\* (counter "conversions"): the instance's counter is raised and that column
\* saved; with a product the method goes on to the item.
RecordOnRecommendation(r, counter, product) ==
    /\ handler[r].pc = "loaded"
    /\ Total(issued) < MaxRecorded
    /\ recommendation' =
            [recommendation EXCEPT ![counter] = handler[r].self[counter] + 1]
    /\ issued' = [issued EXCEPT ![counter] = @ + 1]
    /\ handler' = [handler EXCEPT ![r] =
            IF product = NoProduct THEN NoHandler
            ELSE [handler[r] EXCEPT !.pc = "item", !.counter = counter,
                                    !.product = product]]
    /\ UNCHANGED items
    /\ UNCHANGED <<trackVars, catalogVars, trendVars, selectVars, served, records>>

record_click(r, product) == RecordOnRecommendation(r, "clicks", product)

record_conversion(r, product) == RecordOnRecommendation(r, "conversions", product)

\* recommendationitem_set.get(product=product): the item as read, or, when
\* the product is no item of the record, the exception the method swallows.
GetItem(r) ==
    /\ handler[r].pc = "item"
    /\ handler' = [handler EXCEPT ![r] =
            IF handler[r].product \in DOMAIN items
            THEN [handler[r] EXCEPT !.pc = "item_save",
                                    !.rec_item = items[handler[r].product]]
            ELSE NoHandler]
    /\ UNCHANGED <<recommendation, items, issued>>
    /\ UNCHANGED <<trackVars, catalogVars, trendVars, selectVars, served, records>>

\* rec_item.clicks += 1 (or conversions) and the save of that column.
SaveItem(r) ==
    /\ handler[r].pc = "item_save"
    /\ LET counter == handler[r].counter
           product == handler[r].product
       IN  items' = [items EXCEPT ![product][counter] =
                        handler[r].rec_item[counter] + 1]
    /\ handler' = [handler EXCEPT ![r] = NoHandler]
    /\ UNCHANGED <<recommendation, issued>>
    /\ UNCHANGED <<trackVars, catalogVars, trendVars, selectVars, served, records>>

\* The products a click or a conversion is recorded for: an item of the
\* record, a product that is no item of it, and none.
RecordedProducts == Products \cup {NoProduct}

CounterNext ==
    \/ \E r \in Requests : LoadRecommendation(r)
    \/ \E r \in Requests : record_impression(r)
    \/ \E r \in Requests, product \in RecordedProducts : record_click(r, product)
    \/ \E r \in Requests, product \in RecordedProducts : record_conversion(r, product)
    \/ \E r \in Requests : GetItem(r)
    \/ \E r \in Requests : SaveItem(r)

SpecCounters == TrackInit /\ [][CounterNext]_vars

\* The clock when the events on a served recommendation arrive.
RecordTime == 2

\* The recommendation the events are recorded on: active or deactivated,
\* never expiring, expired, or still valid.
RecordInit ==
    /\ behaviors = <<>>
    /\ interactions = [k \in {} |-> NoInstance]
    /\ now = RecordTime
    /\ pc = [r \in Requests |-> "returned"]
    /\ local = [r \in Requests |-> NoLocal]
    /\ catalog = [p \in Products |->
            ProductRow(TRUE, TRUE, 1, IF p = "p3" THEN "c2" ELSE "c1", 0, FALSE, 0, 0)]
    /\ similarity = <<>>
    /\ trending = [p \in {} |-> TrendingRow(0, 0, 0)]
    /\ call = NoCall
    /\ result = NoResult
    /\ again = <<>>
    /\ batch = NoBatch
    /\ completed = <<>>
    /\ \E is_active \in BOOLEAN,
          valid_until \in {NoDate, RecordTime - 1, RecordTime + 1} :
            recommendation = RecommendationRow(is_active, valid_until)
    /\ items = [p \in RecommendedProducts |-> Counters(0, 0, 0)]
    /\ handler = [r \in Requests |-> NoHandler]
    /\ issued = Counters(0, 0, 0)
    /\ served = 0
    /\ records = <<>>

\* One request at a time: the record is fetched, one event is recorded on
\* it, and the method returns before the next request fetches it.
RecordNext ==
    \/ LoadRecommendation(Worker)
    \/ record_impression(Worker)
    \/ \E product \in RecordedProducts : record_click(Worker, product)
    \/ \E product \in RecordedProducts : record_conversion(Worker, product)
    \/ GetItem(Worker)
    \/ SaveItem(Worker)

SpecRecord == RecordInit /\ [][RecordNext]_vars

AllHandled == \A r \in Requests : handler[r].pc = "idle"

(***************************************************************************)
(* The public entry points of the service.                                 *)
(***************************************************************************)

\* The UserProductInteraction table after _track_behavior has run to its end
\* with no other request in between: unchanged for an anonymous caller or an
\* id of no product, else the row of the pair created or found, updated and
\* saved. The clock is read as t by get_or_create and as t + elapsed after.
TrackedInteractions(user, behavior_type, object_id, t, elapsed) ==
    IF user = NoUser \/ ProductLookup(object_id) # "found" THEN interactions
    ELSE LET key == <<user, object_id>>
             created == key \notin DOMAIN interactions
             row == IF created
                    THEN [NewInteraction(t) EXCEPT !.last_interaction = t + elapsed]
                    ELSE interactions[key]
         IN  Saved(interactions, key,
                   UpdatedInteraction(row, created, behavior_type, t + elapsed))

\* _track_behavior as called by an entry point, run to its end: the event is
\* inserted and the interaction row of a signed-in user updated.
Tracked(user, behavior_type, object_id) ==
    /\ Quiescent
    /\ Len(behaviors) < MaxEvents
    /\ behaviors' = Append(behaviors,
            [user |-> user, behavior_type |-> behavior_type,
             object_id |-> object_id,
             weight |-> _get_behavior_weight(behavior_type),
             created_at |-> now])
    /\ \E elapsed \in IF user # NoUser /\ <<user, object_id>> \notin DOMAIN interactions
                            /\ ProductLookup(object_id) = "found"
                       THEN Elapsed ELSE {0} :
        /\ interactions' = TrackedInteractions(user, behavior_type, object_id,
                                               now + 1, elapsed)
        /\ now' = now + 1 + elapsed
    /\ UNCHANGED <<pc, local>>

\* The entry point hands its dictionary to the view, or raises: a request
\* that returned was served. No statement of an entry point or of a selector
\* inserts a Recommendation.
Respond(entry, selector, outcome) ==
    /\ call = NoCall
    /\ served < MaxServed
    /\ call' = [selector EXCEPT !.entry = entry]
    /\ result' = outcome
    /\ again' = again
    /\ served' = IF outcome.raised = "none" THEN served + 1 ELSE served
    /\ records' = records
    /\ UNCHANGED <<recommendation, items, handler, issued>>
    /\ UNCHANGED <<catalogVars, trendVars>>

\* get_homepage_recommendations with a view of an earlier product tracked.
HomepageTracksView(user, limit) ==
    /\ Tracked(user, "view", "p1")
    /\ Respond("homepage",
               [NoCall EXCEPT !.selector = "popular", !.user = user, !.limit = limit],
               _get_popular_recommendations("", limit))

get_homepage_recommendations(user, limit) ==
    /\ UNCHANGED trackVars
    /\ IF user # NoUser
       THEN Respond("homepage",
                    [NoCall EXCEPT !.selector = "personalized", !.user = user,
                                   !.limit = limit],
                    _get_personalized_recommendations(user, limit))
       ELSE Respond("homepage",
                    [NoCall EXCEPT !.selector = "popular", !.limit = limit],
                    _get_popular_recommendations("", limit))

get_product_recommendations(user, product, limit) ==
    /\ Tracked(user, "view", product)
    /\ Respond("product",
               [NoCall EXCEPT !.selector = "similar", !.user = user,
                              !.product = product, !.limit = limit],
               _get_similar_products(product, limit))

get_cart_recommendations(user, cart_product_ids, limit) ==
    IF cart_product_ids = {}
    THEN get_homepage_recommendations(user, limit)
    ELSE /\ UNCHANGED trackVars
         /\ Respond("cart",
                    [NoCall EXCEPT !.selector = "frequently_bought_together",
                                   !.user = user,
                                   !.product_ids = cart_product_ids,
                                   !.limit = limit],
                    _get_frequently_bought_together(cart_product_ids, limit))

get_category_recommendations(user, category, limit) ==
    /\ Tracked(user, "category_browse", category)
    /\ Respond("category",
               [NoCall EXCEPT !.selector = "trending_category", !.user = user,
                              !.category = category, !.limit = limit],
               _get_trending_in_category(category, limit))

\* The similarity tables the requests are served from: none, and p1 with the
\* neighbours p2 and p3.
ServedSimilarities ==
    {<<>>, <<SimilarityRow("p1", "p2", 9), SimilarityRow("p1", "p3", 5)>>}

\* p1 and p2 on sale in one category, p3 withdrawn; p1 with the snapshot of
\* an earlier run of the batch.
ServeInit ==
    /\ behaviors = <<>>
    /\ interactions = [k \in {} |-> NoInstance]
    /\ now = 1
    /\ pc = [r \in Requests |-> "returned"]
    /\ local = [r \in Requests |-> NoLocal]
    /\ catalog = [p \in Products |->
            ProductRow(p # "p3", TRUE, 1, IF p = "p3" THEN "c2" ELSE "c1", 0, FALSE, 0, 0)]
    /\ similarity \in ServedSimilarities
    /\ trending = [p \in {"p1"} |-> TrendingRow(390, 2980, 12320)]
    /\ call = NoCall
    /\ result = NoResult
    /\ again = <<>>
    /\ batch = NoBatch
    /\ completed = <<>>
    /\ CounterInit

\* The callers of the entry points: a signed-in user and an anonymous one.
Callers == Users \cup {NoUser}

\* The product pages requested, and the carts of the cart page: empty, or
\* holding the product.
ServedProducts == {"p1"}
ServedCarts == {{}, ServedProducts}

\* No run of the batch is under way.
BatchIdle == batch.pc = "idle"

\* The trending batch runs before the first visitor is tracked; requests are
\* then served one at a time.
ServeNext ==
    \/ \E user \in Callers, limit \in Limits :
            BatchIdle /\ get_homepage_recommendations(user, limit)
    \/ \E user \in Callers, product \in ServedProducts, limit \in Limits :
            BatchIdle /\ get_product_recommendations(user, product, limit)
    \/ \E user \in Callers, cart_product_ids \in ServedCarts, limit \in Limits :
            BatchIdle /\ get_cart_recommendations(user, cart_product_ids, limit)
    \/ \E user \in Callers, category \in TrackedCategories, limit \in Limits :
            BatchIdle /\ get_category_recommendations(user, category, limit)
    \/ TakeResult
    \/ call = NoCall /\ behaviors = <<>> /\ StartBatch
    \/ ProcessProduct(FALSE)
    \/ UpdateTrendingRankings
    \/ EndBatch

SpecServe == ServeInit /\ [][ServeNext]_vars

(***************************************************************************)
(* Properties of behaviour tracking and of the interaction aggregate.      *)
(***************************************************************************)

SumOfSubScores(row) ==
    row.view_score + row.cart_score + row.purchase_score
    + row.wishlist_score + row.review_score

\* The kinds that feed each sub-score.
BucketKinds(field) ==
    CASE field = "view_score" -> {"view"}
      [] field = "cart_score" -> {"cart_add", "cart_remove"}
      [] field = "purchase_score" -> {"purchase"}
      [] field = "wishlist_score" -> {"wishlist_add"}
      [] field = "review_score" -> {"review"}
Bucketed == UNION {BucketKinds(f) : f \in ScoreFields}

RECURSIVE WeightSum(_, _)
WeightSum(bs, kinds) ==
    IF bs = <<>> THEN 0
    ELSE (IF Head(bs).behavior_type \in kinds THEN Head(bs).weight ELSE 0)
         + WeightSum(Tail(bs), kinds)

\* C1: in every state reached by tracking calls and update_scores recomputes,
\* also when the calls of parallel workers interleave, every stored
\* UserProductInteraction row has total_score equal to the sum of its five
\* sub-scores.
C1_TotalIsSumOfSubScores ==
    \A key \in DOMAIN interactions :
        interactions[key].total_score = SumOfSubScores(interactions[key])

\* C1 witness: a row updated by two calls whose total is not zero.
C1_Witness ==
    \E key \in DOMAIN interactions :
        /\ interactions[key].interaction_count = 2
        /\ interactions[key].review_score # 0
        /\ interactions[key].total_score > interactions[key].review_score

\* C2: when the tracking calls run one after the other, the sub-scores that
\* update_scores rebuilds from the event log of a pair are the sub-scores the
\* incremental updates have stored for it.
C2_RecomputeEqualsIncremental ==
    Quiescent =>
        \A key \in DOMAIN interactions :
            LET rebuilt == RecomputedScores(interactions[key],
                               PairBehaviors(behaviors, key[1], key[2]))
            IN  \A f \in ScoreFields : rebuilt[f] = interactions[key][f]

\* C2 witness: a row built by two incremental updates and never recomputed
\* (its first_interaction is still the clock value of its creation, later
\* than its first event), with a negative cart score.
C2_Witness ==
    /\ Quiescent
    /\ \E key \in DOMAIN interactions :
        LET bs == PairBehaviors(behaviors, key[1], key[2]) IN
        /\ interactions[key].interaction_count = 2
        /\ Len(bs) = 2
        /\ interactions[key].first_interaction > bs[1].created_at
        /\ interactions[key].cart_score < 0
        /\ interactions[key].total_score > 0

\* C3 (as claimed): once the parallel tracking calls for one pair have all
\* finished, each sub-score is the sum of the weights of the events mapped to
\* it and interaction_count is the number of calls.
C3_NoLostUpdate ==
    Quiescent =>
        \A key \in DOMAIN interactions :
            LET bs == PairBehaviors(behaviors, key[1], key[2]) IN
            /\ \A f \in ScoreFields :
                    interactions[key][f] = WeightSum(bs, BucketKinds(f))
            /\ interactions[key].interaction_count = Len(bs)

\* The event a running request has inserted is in the log.
EventLogged(r) ==
    \E i \in DOMAIN behaviors :
        /\ behaviors[i].user = local[r].user
        /\ behaviors[i].behavior_type = local[r].behavior_type
        /\ behaviors[i].object_id = local[r].object_id

C7_ScoreUpdateFailureNonFatal ==
    \A r \in Requests :
        /\ pc[r] \in {"update", "save"} => EventLogged(r)
        /\ pc[r] # "raised"

\* C8: the save of a tracked purchase raises the pair's purchase_score and
\* total_score by exactly 10.0; the save of a tracked cart_remove lowers
\* cart_score and total_score by exactly 1.0, whatever their sign becomes.
C8_PurchaseAndCartRemoveDeltas ==
    [][\A r \in Requests :
        (pc[r] = "save" /\ pc'[r] # "save")
        => LET key == <<local[r].user, local[r].object_id>>
               old == interactions[key]
               new == interactions'[key]
           IN  /\ local[r].behavior_type = "purchase"
                    => /\ new.purchase_score = old.purchase_score + 100
                       /\ new.total_score = old.total_score + 100
               /\ local[r].behavior_type = "cart_remove"
                    => /\ new.cart_score = old.cart_score - 10
                       /\ new.total_score = old.total_score - 10]_vars

\* C8 witness: a purchase was tracked for one pair and a cart_remove for
\* another: the first row holds 10.0, the second a negative cart_score and a
\* negative total_score.
C8_Witness ==
    /\ Quiescent
    /\ \E key \in DOMAIN interactions :
        /\ interactions[key].purchase_score = 100
        /\ interactions[key].total_score = 100
    /\ \E key \in DOMAIN interactions :
        /\ interactions[key].cart_score = -10
        /\ interactions[key].total_score = -10

ScoresOf(row) ==
    [f \in ScoreFields \cup {"total_score"} |-> row[f]]

\* C9: an event of a kind outside the bucket mapping is stored with its table
\* weight (0.5 for search, 0.3 for category_browse, 1.0 for an undeclared
\* kind), and the call that tracks it changes no sub-score and no total of
\* any UserProductInteraction: a row it creates holds zeros.
C9_UnbucketedKindChangesNoScore ==
    [][/\ \A i \in DOMAIN behaviors' :
            LET kind == behaviors'[i].behavior_type IN
            kind \notin Bucketed =>
                behaviors'[i].weight =
                    (CASE kind = "search" -> 5
                       [] kind = "category_browse" -> 3
                       [] OTHER -> 10)
       /\ behaviors' # behaviors => interactions' = interactions
       /\ \A r \in Requests :
            (pc[r] \in {"update", "save"} /\ pc'[r] # pc[r]
                /\ local[r].behavior_type \notin Bucketed)
            => /\ pc'[r] = "raised" => local[r].object_id \in Malformed
               /\ \A key \in DOMAIN interactions' :
                    ScoresOf(interactions'[key]) =
                        IF key \in DOMAIN interactions
                        THEN ScoresOf(interactions[key])
                        ELSE ScoresOf(NewInteraction(0))]_vars

\* C9 witness: a pair whose first event was a purchase and whose second was
\* of an undeclared kind: two events counted, the scores those of the purchase.
C9_Witness ==
    /\ Quiescent
    /\ \E key \in DOMAIN interactions :
        LET bs == PairBehaviors(behaviors, key[1], key[2]) IN
        /\ Len(bs) = 2
        /\ bs[1].behavior_type = "purchase"
        /\ bs[2].behavior_type = "unknown"
        /\ bs[2].weight = 10
        /\ interactions[key].interaction_count = 2
        /\ interactions[key].total_score = 100

(***************************************************************************)
(* Properties of the engagement counters and of the selectors.             *)
(***************************************************************************)

\* C4 (as claimed): once the parallel requests have all finished, the stored
\* impressions, clicks and conversions of the Recommendation are the numbers
\* of record_impression, record_click and record_conversion calls made.
C4_CountersEqualCalls ==
    AllHandled =>
        /\ recommendation.impressions = issued.impressions
        /\ recommendation.clicks = issued.clicks
        /\ recommendation.conversions = issued.conversions

OnSale(product) ==
    /\ catalog[product].is_active
    /\ ~catalog[product].manage_stock \/ catalog[product].stock_quantity > 0

\* C5: every product of a list a selector returns is active and in stock.
C5_OnlyProductsOnSale ==
    result.raised = "none" =>
        \A i \in DOMAIN result.products : OnSale(result.products[i])

\* C5 witness: the similar-products selector returned p3 for seed p1 although
\* the first row of the similarity table ties p1 to p2 with the highest score:
\* p2 is sold out.
C5_Witness ==
    /\ call.selector = "similar"
    /\ call.product = "p1"
    /\ call.limit = 1
    /\ result = Returned(<<"p3">>)
    /\ Len(similarity) = 2
    /\ similarity[1] = SimilarityRow("p1", "p2", 9)
    /\ similarity[2].similarity_score = 5
    /\ catalog["p2"].is_active
    /\ catalog["p2"].manage_stock
    /\ catalog["p2"].stock_quantity = 0

\* C10 (as claimed): when at least limit products are active and in stock,
\* a selector called with a limit of one or more returns a list of exactly
\* limit products, whatever the similarity, interaction and trend tables hold.
C10_FallbackCompleteness ==
    (/\ call # NoCall
     /\ call.limit >= 1
     /\ Cardinality({p \in Products : OnSale(p)}) >= call.limit)
        => /\ result.raised = "none"
           /\ Len(result.products) = call.limit

\* C11 (as claimed): a selector call made a second time with the same
\* arguments, no row having been written in between, returns the list the
\* first call returned, also when candidates tie on the ordering key.
C11_SameCallSameList ==
    again # <<>> => again[1] = result

\* The products the user has an interaction row for.
InteractedBy(user) == {p \in DOMAIN catalog : <<user, p>> \in DOMAIN interactions}

\* The rows of the similarity table that name the product on either side.
RowsAround(product) ==
    {i \in DOMAIN similarity :
        similarity[i].product_1 = product \/ similarity[i].product_2 = product}

\* a stands before b in the list.
Before(list, a, b) ==
    \E i, j \in DOMAIN list : i < j /\ list[i] = a /\ list[j] = b

\* The data of the example: the user's rows are on A and B, A's higher; the
\* similarity table pairs A with C and B with D and holds nothing else; C
\* and D are distinct, on sale and not interacted with.
SeedExample(user, A, B, C, D) ==
    /\ InteractedBy(user) = {A, B}
    /\ A # B /\ C # D /\ {C, D} \cap {A, B} = {}
    /\ interactions[<<user, A>>].total_score = 100
    /\ interactions[<<user, B>>].total_score = 10
    /\ Len(similarity) = 2
    /\ \E i \in RowsAround(A) : OtherProduct(similarity[i], A) = C
    /\ \E i \in RowsAround(B) : OtherProduct(similarity[i], B) = D
    /\ OnSale(C) /\ OnSale(D)

\* C12 (as claimed): with totals 10.0 on A and 1.0 on B, A similar to C and B
\* similar to D, C and D on sale and unseen by the user, a personalized call
\* with limit 4 returns a list in which C stands before D.
C12_SeedsByTotalDescending ==
    (call.selector = "personalized" /\ call.limit = 4)
    => \A A, B \in InteractedBy(call.user) :
        \A i, j \in DOMAIN similarity :
            LET C == OtherProduct(similarity[i], A)
                D == OtherProduct(similarity[j], B)
            IN  SeedExample(call.user, A, B, C, D)
                => /\ result.raised = "none"
                   /\ Before(result.products, C, D)

\* C13 (as claimed): a list returned by a personalized call holds no product
\* the user has a UserProductInteraction row for and no product twice,
\* however many rows the user has.
C13_NoInteractedNoDuplicate ==
    (call.selector = "personalized" /\ result.raised = "none")
    => /\ \A i \in DOMAIN result.products :
            result.products[i] \notin InteractedBy(call.user)
       /\ \A i, j \in DOMAIN result.products :
            i # j => result.products[i] # result.products[j]

\* The products of a list that pass a test, in the order of the list.
Kept(list, passing) == SelectSeq(list, LAMBDA p : p \in passing)

\* The neighbours of the seed in the first rows of its similarity rows.
Neighbours(seed, rows) ==
    [i \in 1..Min(rows, Len(SimilarityRows(seed))) |->
        OtherProduct(SimilarityRows(seed)[i], seed)]

\* The list is ordered by the key, descending.
Descending(list, key) ==
    \A i, j \in DOMAIN list : i < j => ~KeysBefore(key[list[j]], key[list[i]])

\* C14 (as claimed): a similar-to-product call returns the seed's neighbours
\* among its first 2*limit similarity rows, in descending similarity order,
\* that are on sale and not the seed, cut at limit; when these are fewer than
\* limit the list goes on with the other on-sale products of the seed's
\* category by view count descending, as many as are missing or as exist;
\* the seed is not in the list.
C14_SimilarThenCategoryPadding ==
    call.selector = "similar"
    => LET seed == call.product
           picked == Take(Kept(Neighbours(seed, 2 * call.limit),
                               {p \in DOMAIN catalog : OnSale(p) /\ p # seed}),
                          call.limit)
           eligible == {p \in DOMAIN catalog :
                            /\ catalog[p].category = catalog[seed].category
                            /\ OnSale(p) /\ p # seed /\ p \notin Range(picked)}
           missing == call.limit - Len(picked)
           padding == SubSeq(result.products, Len(picked) + 1,
                             Len(result.products))
       IN  /\ result.raised = "none"
           /\ Take(result.products, Len(picked)) = picked
           /\ Range(padding) \subseteq eligible
           /\ Len(padding) = Min(missing, Cardinality(eligible))
           /\ Cardinality(Range(padding)) = Len(padding)
           /\ Descending(padding,
                    [p \in DOMAIN catalog |-> <<catalog[p].view_count>>])
           /\ seed \notin Range(result.products)

\* C15 (as claimed): a frequently-bought-together call returns a list of
\* products whose category is the category of an input product and that are
\* no input products, ordered by purchase count then view count descending,
\* of at most limit products.
C15_BoughtTogetherSelection ==
    call.selector = "frequently_bought_together"
    => /\ result.raised = "none"
       /\ \A i \in DOMAIN result.products :
            /\ result.products[i] \notin call.product_ids
            /\ \E p \in call.product_ids \cap DOMAIN catalog :
                    catalog[p].category = catalog[result.products[i]].category
       /\ Descending(result.products,
                [p \in DOMAIN catalog |->
                    <<catalog[p].order_count, catalog[p].view_count>>])
       /\ Len(result.products) <= call.limit

\* C16: whatever the tables hold, a list a selector returns for a limit of
\* zero or more holds at most limit products.
C16_AtMostLimit ==
    (call # NoCall /\ result.raised = "none")
    => Len(result.products) <= call.limit

\* C16 witness: a personalized call with limit 0 returned the empty list
\* although the first seed has an unseen neighbour on sale, which the loop
\* appends before it tests the length.
C16_Witness ==
    /\ result.raised = "none"
    /\ call.selector = "personalized"
    /\ call.limit = 0
    /\ result.products = <<>>
    /\ InteractedBy(call.user) # {}
    /\ \E i \in DOMAIN similarity :
        LET seed == InteractionsOf(call.user)[1]
            other == OtherProduct(similarity[i], seed)
        IN  /\ i \in RowsAround(seed)
            /\ OnSale(other)
            /\ other \notin InteractedBy(call.user)

(***************************************************************************)
(* Properties of the trend batch.                                          *)
(***************************************************************************)

\* The events of a kind about a product tracked at most a span before t.
Trailing(product, kind, t, span) ==
    Cardinality({i \in DOMAIN behaviors :
        /\ behaviors[i].object_id = product
        /\ behaviors[i].behavior_type = kind
        /\ behaviors[i].created_at >= t - span})

\* C17: the snapshot of every product the running or completed batch has
\* processed holds daily_score = views_1d*1 + purchases_1d*10 + cart_adds_1d*3,
\* weekly_score = views_7d*0.5 + daily_score*7 and monthly_score =
\* views_30d*0.2 + weekly_score*4 (in tenths), and its three velocity fields
\* are the trailing-day counts of views, purchases and cart adds; the counts
\* (10, 2, 3), 50 and 200 give 39, 298 and 1232.
C17_TrendScoreFormulas ==
    /\ \A p \in batch.processed :
        LET views_1d == Trailing(p, "view", batch.now, 1)
            purchases_1d == Trailing(p, "purchase", batch.now, 1)
            cart_adds_1d == Trailing(p, "cart_add", batch.now, 1)
            views_7d == Trailing(p, "view", batch.now, 7)
            views_30d == Trailing(p, "view", batch.now, 30)
            row == trending[p]
        IN  /\ row.daily_score = views_1d * 10 + purchases_1d * 100
                                  + cart_adds_1d * 30
            /\ row.weekly_score = views_7d * 5 + row.daily_score * 7
            /\ row.monthly_score = views_30d * 2 + row.weekly_score * 4
            /\ row.view_velocity = views_1d
            /\ row.purchase_velocity = purchases_1d
            /\ row.cart_add_velocity = cart_adds_1d
    /\ TrendScores(10, 2, 3, 50, 200)
            = [daily_score |-> 390, weekly_score |-> 2980, monthly_score |-> 12320]

\* C17 witness: a completed run processed a product that has a view on the
\* edge of the trailing day and one on the edge of the trailing week: its
\* weekly score is not seven times the daily one.
C17_Witness ==
    /\ batch.pc = "done"
    /\ \E p \in batch.processed :
        /\ trending[p].view_velocity = 1
        /\ trending[p].daily_score = 10
        /\ trending[p].weekly_score = 80
        /\ trending[p].monthly_score = 324

\* The scores and ranks of a period.
Periods ==
    {<<"daily_score", "daily_rank">>, <<"weekly_score", "weekly_rank">>,
     <<"monthly_score", "monthly_rank">>}

\* The ranks of the column are 1..N, one each, and a strictly higher score
\* has a strictly lower rank.
DenseRanks(table, score, rank) ==
    /\ {table[p][rank] : p \in DOMAIN table} = 1..Cardinality(DOMAIN table)
    /\ \A p, q \in DOMAIN table :
            table[p][score] > table[q][score] => table[p][rank] < table[q][rank]

\* Three snapshots with the daily scores 39, 10 and 100.
RankExample ==
    [p \in Products |->
        CASE p = "p1" -> TrendingRow(390, 0, 0)
          [] p = "p2" -> TrendingRow(100, 0, 0)
          [] p = "p3" -> TrendingRow(1000, 0, 0)]

\* C18: when a run has completed, over all N snapshots of the table each of
\* daily_rank, weekly_rank and monthly_rank is a permutation of 1..N in which
\* a strictly higher score of its own period has a strictly lower rank; the
\* daily scores 39, 10, 100 are ranked 2, 3, 1.
C18_DenseRanksByScore ==
    /\ batch.pc = "done"
        => \A period \in Periods : DenseRanks(trending, period[1], period[2])
    /\ \A order \in Rankings(RankExample, "daily_score") :
        <<RankOf(order, "p1"), RankOf(order, "p2"), RankOf(order, "p3")>>
            = <<2, 3, 1>>

\* C18 witness: a completed run ranked three snapshots with three different
\* daily scores: the withdrawn product's old snapshot first, then the
\* product purchased in the trailing day, then the one viewed.
C18_Witness ==
    /\ batch.pc = "done"
    /\ DOMAIN trending = Products
    /\ trending["p3"].daily_score = 390 /\ trending["p3"].daily_rank = 1
    /\ \E p, q \in Products :
        /\ trending[p].daily_score = 100 /\ trending[p].daily_rank = 2
        /\ trending[q].daily_score = 10 /\ trending[q].daily_rank = 3

\* The products the run set out to process.
ActiveProducts == {p \in DOMAIN catalog : catalog[p].is_active}

\* C19 (as claimed): a failure in the iteration of one product does not end
\* the run: the run never leaves with the exception, and when it is through
\* every active product but the failed ones was processed and the ranking
\* pass has run.
C19_FailureSkipsOneProduct ==
    /\ batch.pc # "raised"
    /\ batch.pc = "done"
        => /\ batch.processed \cup batch.failed = ActiveProducts
           /\ \A period \in Periods :
                DenseRanks(trending, period[1], period[2])

\* C20 (as claimed): a run that completes with the same log, catalog and
\* clock reading as the last completed run leaves every snapshot, scores,
\* velocity fields and ranks, as that run left it.
C20_BatchIdempotent ==
    [][(/\ batch.pc = "loop"
        /\ batch'.pc = "done"
        /\ completed # <<>>
        /\ behaviors' = behaviors /\ catalog' = catalog)
       => (completed[1].now = batch.now => trending' = completed[1].table)]_vars

(***************************************************************************)
(* Properties of the events recorded on a served recommendation.           *)
(***************************************************************************)

\* The request leaves the step it stands at.
Leaves(r, step) == handler[r].pc = step /\ handler'[r].pc # step

\* C21: record_click on a freshly fetched record raises the record's clicks
\* by exactly 1 whatever the product; it then raises the clicks of the item
\* of that product by exactly 1 when the record has such an item, and
\* changes no item and returns when it has none or the product is omitted;
\* record_conversion does the same on the conversions counters.
C21_ClickAndConversionCounters ==
    [][\A r \in Requests :
        /\ (Leaves(r, "loaded") /\ issued'.impressions = issued.impressions)
            => \E counter \in {"clicks", "conversions"} :
                /\ issued'[counter] = issued[counter] + 1
                /\ recommendation' = [recommendation EXCEPT ![counter] = @ + 1]
                /\ items' = items
                /\ handler'[r].pc \in {"idle", "item"}
                /\ handler'[r].pc = "item" => handler'[r].counter = counter
        /\ Leaves(r, "item")
            => /\ items' = items /\ recommendation' = recommendation
               /\ IF handler[r].product \in DOMAIN items
                  THEN handler'[r].pc = "item_save"
                  ELSE handler'[r] = NoHandler
        /\ Leaves(r, "item_save")
            => /\ recommendation' = recommendation
               /\ handler[r].product \in DOMAIN items
               /\ items' = [items EXCEPT
                        ![handler[r].product][handler[r].counter] = @ + 1]
               /\ handler'[r] = NoHandler]_vars

\* C21 witness: a click on an item, a click on a product that is no item and
\* a conversion without a product were recorded: the record holds two clicks
\* and one conversion, the one item one click.
C21_Witness ==
    /\ AllHandled
    /\ recommendation.clicks = 2
    /\ recommendation.conversions = 1
    /\ \E p \in DOMAIN items :
        /\ items[p].clicks = 1
        /\ \A q \in DOMAIN items \ {p} : items[q] = Counters(0, 0, 0)
    /\ \A p \in DOMAIN items : items[p].conversions = 0

\* C22: record_impression on a freshly fetched record raises the record's
\* impressions by exactly 1 and leaves its clicks and conversions and the
\* three counters of every item as they are.
C22_ImpressionFrame ==
    [][\A r \in Requests :
        (Leaves(r, "loaded") /\ issued'.impressions # issued.impressions)
        => /\ recommendation' = [recommendation EXCEPT !.impressions = @ + 1]
           /\ items' = items
           /\ handler'[r] = NoHandler]_vars

\* C22 witness: two impressions were recorded after a click on an item.
C22_Witness ==
    /\ AllHandled
    /\ recommendation.impressions = 2
    /\ recommendation.clicks = 1
    /\ \E p \in DOMAIN items : items[p].clicks = 1
    /\ \A p \in DOMAIN items : items[p].impressions = 0

\* is_active is False, or valid_until has passed.
Terminal ==
    \/ ~recommendation.is_active
    \/ recommendation.valid_until # NoDate /\ recommendation.valid_until < now

\* C23 (as claimed): no step taken on a terminal Recommendation changes a
\* counter of the record or of its items.
C23_TerminalRecordFrozen ==
    [][Terminal => (recommendation' = recommendation /\ items' = items)]_vars

\* The sum of one counter over the given items of a recommendation.
RECURSIVE ItemSum(_, _, _)
ItemSum(table, products, counter) ==
    IF products = {} THEN 0
    ELSE LET p == CHOOSE q \in products : TRUE
         IN  table[p][counter] + ItemSum(table, products \ {p}, counter)

\* C28 (as claimed): under any interleaving of requests the record's clicks
\* stay at or above the sum of its items' clicks, likewise for conversions,
\* and no step lowers a counter of the record or of an item.
C28_RecordCountersDominateItems ==
    [][/\ \A counter \in {"clicks", "conversions"} :
            recommendation'[counter] >= ItemSum(items', DOMAIN items', counter)
       /\ \A counter \in {"impressions", "clicks", "conversions"} :
            /\ recommendation'[counter] >= recommendation[counter]
            /\ \A p \in DOMAIN items : items'[p][counter] >= items[p][counter]]_vars

\* C30 (as claimed): a list returned by a similar-to-product call holds no
\* product twice, also when a pair of products is stored in both directions
\* of the similarity table.
C30_SimilarNoDuplicate ==
    (call.selector = "similar" /\ result.raised = "none")
    => \A i, j \in DOMAIN result.products :
            i # j => result.products[i] # result.products[j]

(***************************************************************************)
(* Further properties of the trending batch.                               *)
(***************************************************************************)

\* The three rank fields of a snapshot.
RanksOf(row) == <<row.daily_rank, row.weekly_rank, row.monthly_rank>>

\* C25 (as claimed): the ranking pass of a run leaves the daily, weekly and
\* monthly rank of every snapshot whose product the run did not process
\* (inactive at batch time, or failed) as they were.
C25_RanksOnlyUpdatedSnapshots ==
    [][(batch.pc = "loop" /\ batch'.pc = "done")
       => \A p \in DOMAIN trending \ batch.processed :
            RanksOf(trending'[p]) = RanksOf(trending[p])]_vars

(***************************************************************************)
(* The metadata of a UserProductInteraction.                               *)
(***************************************************************************)

\* C27 (as claimed): the row of a pair is created with first_interaction =
\* last_interaction; an event tracked on an existing row sets
\* last_interaction, keeps first_interaction and adds exactly 1 to
\* interaction_count; first_interaction <= last_interaction in every row, and
\* when no call is running interaction_count is the number of events tracked
\* for the pair.
C27_InteractionMetadata ==
    [][\A key \in DOMAIN interactions' :
        LET new == interactions'[key] IN
        /\ new.first_interaction <= new.last_interaction
        /\ key \notin DOMAIN interactions
            => new.first_interaction = new.last_interaction
        /\ \A r \in Requests :
            (/\ pc[r] = "save" /\ pc'[r] = "returned"
             /\ key = <<local[r].user, local[r].object_id>>
             /\ ~local[r].created)
            => /\ new.last_interaction = now
               /\ new.first_interaction = interactions[key].first_interaction
               /\ new.interaction_count = interactions[key].interaction_count + 1
        /\ Quiescent'
            => new.interaction_count = Len(PairBehaviors(behaviors', key[1], key[2]))]_vars

\* The count of a query over a log, for a run that read the clock as t.
CountedIn(log, product, query, t) ==
    Len(SelectSeq(log,
            LAMBDA b : /\ b.object_id = product
                       /\ b.behavior_type = query.behavior_type
                       /\ b.created_at >= t - query.window))

\* C26 (as claimed): the five counts taken for a product are the counts of
\* one state of the event log, also when events are tracked while they are
\* taken: the log is only appended to, so some prefix of it yields all five.
C26_CountsFromOneLogState ==
    (batch.pc = "loop" /\ Len(batch.counts) = Len(CountQueries))
    => \E k \in 0..Len(behaviors) :
        \A i \in DOMAIN CountQueries :
            batch.counts[i] = CountedIn(SubSeq(behaviors, 1, k), Head(batch.todo),
                                        CountQueries[i], batch.now)

(***************************************************************************)
(* Properties of the public entry points.                                  *)
(***************************************************************************)

\* C24 (as claimed): the number of Recommendation records equals the number
\* of requests the entry points have served.
C24_OneRecordPerRequest == Len(records) = served

\* An entry point has just run.
Entered == call = NoCall /\ call' # NoCall

\* The object the entry point tracks.
TrackedObject(c) == IF c.entry = "product" THEN c.product ELSE c.category

\* C29: no step changes a ProductSimilarity row; a TrendingProduct snapshot
\* changes only in a step of the trend batch; the homepage and cart entry
\* points, which only run selectors, leave the event log and every
\* UserProductInteraction unchanged; the product and category entry points
\* change them by their tracking step alone (one event appended, no row of
\* another pair changed), so the selector they then run writes nothing; and
\* the log and the interactions change in no other step.
C29_SelectorsReadOnly ==
    [][/\ similarity' = similarity
       /\ trending' # trending => (batch.pc = "loop" /\ call' = call)
       /\ Entered =>
            IF call'.entry \in {"product", "category"}
            THEN /\ Len(behaviors') = Len(behaviors) + 1
                 /\ SubSeq(behaviors', 1, Len(behaviors)) = behaviors
                 /\ behaviors'[Len(behaviors')].object_id = TrackedObject(call')
                 /\ behaviors'[Len(behaviors')].user = call'.user
                 /\ \A key \in DOMAIN interactions' :
                        key # <<call'.user, TrackedObject(call')>>
                        => /\ key \in DOMAIN interactions
                           /\ interactions'[key] = interactions[key]
            ELSE behaviors' = behaviors /\ interactions' = interactions
       /\ ~Entered => (behaviors' = behaviors /\ interactions' = interactions)]_vars

\* C29 witness: after a product page of a signed-in user was served the
\* homepage returned a personalized list: the log holds the one view, one
\* interaction row exists and the similarity table is as it was loaded.
C29_Witness ==
    /\ call.entry = "homepage"
    /\ call.selector = "personalized"
    /\ result.raised = "none"
    /\ result.products # <<>>
    /\ Len(behaviors) = 1
    /\ DOMAIN interactions = {<<"u1", "p1">>}
    /\ similarity \in ServedSimilarities

====
